---- MODULE Spec2Model ----
(***************************************************************************)
(* Model of the statistical core of the quantum-volume analysis package:   *)
(*   src/utils.py                     convert, estimate_errors,             *)
(*                                    convert_error_dict,                   *)
(*                                    passing_error_estimate                *)
(*   src/qtm_qv/analysis_functions.py original_bounds, bootstrap,           *)
(*                                    bootstrap_bounds                      *)
(*                                                                         *)
(* Numbers.  The code computes in binary floating point.  The model        *)
(* computes the same expressions in exact arithmetic: rationals with       *)
(* arbitrary-precision numerators and denominators (TLC's integers are     *)
(* 32 bits wide, too narrow for the products that estimate_errors forms),  *)
(* extended by a symbolic square root for original_bounds and by the       *)
(* symbolic constant erf(sqrt 2) for bootstrap_bounds.  Every statement    *)
(* checked below is therefore a statement about the real-number value of   *)
(* the code's expressions, not about their rounding.                       *)
(***************************************************************************)
EXTENDS Integers, Sequences, FiniteSets, TLC

VARIABLES
    pc,          \* position of the running call
    cv_value,    \* convert: the number first passed in
    cv_d,        \* convert: the dimension argument d
    cv_chain,    \* convert: kinds visited by successive calls, first is the start kind
    cv_outs,     \* convert: the value returned by each call of the chain
    stdout,      \* lines written by print()
    ob_success,  \* original_bounds: argument success, with its run-time type
    ob_trials,   \* original_bounds: argument trials
    ob_ret,      \* original_bounds: outcome of the call
    qv_fitter,   \* bootstrap: heavy_output_counts and _circ_shots of the fitter
    reps,        \* bootstrap: argument reps
    ntrials,     \* bootstrap: argument ntrials (NoneArg when left unspecified)
    run1,        \* bootstrap: frame of the call bootstrap_bounds(qv_fitter, reps, ntrials)
    run2,        \* bootstrap: frame of a second, identical call started from the same seed
    error,       \* convert_error_dict: argument error
    etype,       \* convert_error_dict: argument etype
    error_dict,  \* outcome of convert_error_dict
    slice_fid,   \* outcome of estimate_errors
    evals,       \* passing_error_estimate: the error levels, keys of error_dict in order
    act_success, \* passing_error_estimate: per level, the success of each trial
    cs,          \* passing_error_estimate: the interpolant cs
    sol,         \* passing_error_estimate: what root_scalar returned
    pe_ret       \* passing_error_estimate: outcome of the call

vars == << pc, cv_value, cv_d, cv_chain, cv_outs, stdout, ob_success, ob_trials,
           ob_ret, qv_fitter, reps, ntrials, run1, run2, error, etype,
           error_dict, slice_fid, evals, act_success, cs, sol, pe_ret >>

-----------------------------------------------------------------------------
(* Exact arithmetic: naturals as little-endian sequences of limbs.         *)

Base == 100 * 100

RECURSIVE NTrim(_)
NTrim(s) ==
    IF s = <<>> THEN <<>>
    ELSE IF s[Len(s)] = 0 THEN NTrim(SubSeq(s, 1, Len(s) - 1)) ELSE s

RECURSIVE NOfInt(_)
NOfInt(n) == IF n = 0 THEN <<>> ELSE <<n % Base>> \o NOfInt(n \div Base)

RECURSIVE NAddC(_, _, _)
NAddC(a, b, c) ==
    IF a = <<>> /\ b = <<>> THEN (IF c = 0 THEN <<>> ELSE <<c>>)
    ELSE LET x == IF a = <<>> THEN 0 ELSE Head(a)
             y == IF b = <<>> THEN 0 ELSE Head(b)
             s == x + y + c
         IN  <<s % Base>> \o NAddC(IF a = <<>> THEN <<>> ELSE Tail(a),
                                   IF b = <<>> THEN <<>> ELSE Tail(b),
                                   s \div Base)

NAdd(a, b) == NAddC(a, b, 0)

RECURSIVE NSubB(_, _, _)
NSubB(a, b, w) ==
    IF a = <<>> THEN <<>>
    ELSE LET y == IF b = <<>> THEN 0 ELSE Head(b)
             t == Head(a) - y - w
         IN  <<IF t < 0 THEN t + Base ELSE t>>
             \o NSubB(Tail(a), IF b = <<>> THEN <<>> ELSE Tail(b),
                      IF t < 0 THEN 1 ELSE 0)

\* a - b for a >= b
NSub(a, b) == NTrim(NSubB(a, b, 0))

RECURSIVE NCmpAt(_, _, _)
NCmpAt(a, b, i) ==
    IF i = 0 THEN 0
    ELSE IF a[i] < b[i] THEN -1
    ELSE IF a[i] > b[i] THEN 1
    ELSE NCmpAt(a, b, i - 1)

NCmp(a, b) ==
    IF Len(a) < Len(b) THEN -1
    ELSE IF Len(a) > Len(b) THEN 1
    ELSE NCmpAt(a, b, Len(a))

RECURSIVE NMulD(_, _, _)
NMulD(a, m, c) ==
    IF a = <<>> THEN (IF c = 0 THEN <<>> ELSE <<c>>)
    ELSE LET p == Head(a) * m + c
         IN  <<p % Base>> \o NMulD(Tail(a), m, p \div Base)

RECURSIVE NMul(_, _)
NMul(a, b) ==
    IF a = <<>> \/ b = <<>> THEN <<>>
    ELSE LET r == NMul(a, Tail(b))
             hi == IF r = <<>> THEN <<>> ELSE <<0>> \o r
         IN  IF Head(b) = 0 THEN hi ELSE NAdd(NMulD(a, Head(b), 0), hi)

(* Integers: a sign and a magnitude.                                       *)

ZMk(neg, mag) == [neg |-> neg /\ mag # <<>>, mag |-> mag]

ZOfInt(i) == IF i < 0 THEN ZMk(TRUE, NOfInt(-i)) ELSE ZMk(FALSE, NOfInt(i))

ZNeg(x) == ZMk(~x.neg, x.mag)

ZAdd(x, y) ==
    IF x.neg = y.neg THEN ZMk(x.neg, NAdd(x.mag, y.mag))
    ELSE IF NCmp(x.mag, y.mag) >= 0 THEN ZMk(x.neg, NSub(x.mag, y.mag))
    ELSE ZMk(y.neg, NSub(y.mag, x.mag))

ZMul(x, y) == ZMk(x.neg # y.neg, NMul(x.mag, y.mag))

ZSign(x) == IF x.mag = <<>> THEN 0 ELSE IF x.neg THEN -1 ELSE 1

(* Rationals: an integer numerator over a positive natural denominator.    *)
(* They are not reduced; equality and order go by cross-multiplication.    *)

RMk(num, den) == [num |-> num, den |-> den]

\* n/d for machine integers n and d > 0
R(n, d) == RMk(ZOfInt(n), NOfInt(d))

RZero == R(0, 1)

ROne == R(1, 1)

RAdd(x, y) ==
    RMk(ZAdd(ZMul(x.num, ZMk(FALSE, y.den)), ZMul(y.num, ZMk(FALSE, x.den))),
        NMul(x.den, y.den))

RNeg(x) == RMk(ZNeg(x.num), x.den)

RSub(x, y) == RAdd(x, RNeg(y))

RMul(x, y) == RMk(ZMul(x.num, y.num), NMul(x.den, y.den))

RSign(x) == ZSign(x.num)

\* x / y for y # 0
RDiv(x, y) ==
    RMk(ZMk(x.num.neg # y.num.neg, NMul(x.num.mag, y.den)),
        NMul(x.den, y.num.mag))

RCmp(x, y) == RSign(RSub(x, y))

REq(x, y) == RCmp(x, y) = 0

RLt(x, y) == RCmp(x, y) < 0

RLe(x, y) == RCmp(x, y) <= 0

-----------------------------------------------------------------------------
(* Python values.  A value is a float, None, or (as the outcome of a call) *)
(* the exception that ended the call.                                      *)

PyFloat(x) == [tag |-> "float", val |-> x]

PyNone == [tag |-> "None", val |-> RZero]

PyRaise(exc) == [tag |-> exc, val |-> RZero]

IsRaise(o) == o.tag \notin {"float", "None"}

\* x / y on Python floats: a zero divisor raises ZeroDivisionError
PyDiv(x, y) ==
    IF RSign(y) = 0 THEN PyRaise("ZeroDivisionError") ELSE PyFloat(RDiv(x, y))

-----------------------------------------------------------------------------
(* convert (src/utils.py)                                                  *)

\* out = (d*value - 1)/(d - 1)
avg_to_dep(v, d) == PyDiv(RSub(RMul(d, v), ROne), RSub(d, ROne))

\* out = ((d + 1)*value - 1)/d
avg_to_proc(v, d) == PyDiv(RSub(RMul(RAdd(d, ROne), v), ROne), d)

\* out = ((d - 1)*value + 1)/d
dep_to_avg(v, d) == PyDiv(RAdd(RMul(RSub(d, ROne), v), ROne), d)

\* a mutation of dep_to_proc: d where the code has d**2
dep_to_proc_linear(v, d) == PyDiv(RAdd(RMul(RSub(d, ROne), v), ROne), d)

\* out = ((d**2 - 1)*value + 1)/d**2
dep_to_proc(v, d) ==
    PyDiv(RAdd(RMul(RSub(RMul(d, d), ROne), v), ROne), RMul(d, d))

\* a mutation of proc_to_avg: d*value - 1 where the code has d*value + 1
proc_to_avg_minus(v, d) == PyDiv(RSub(RMul(d, v), ROne), RAdd(d, ROne))

\* out = (d*value + 1)/(d + 1)
proc_to_avg(v, d) == PyDiv(RAdd(RMul(d, v), ROne), RAdd(d, ROne))

\* out = (d**2*value - 1)/(d**2 - 1)
proc_to_dep(v, d) ==
    PyDiv(RSub(RMul(RMul(d, d), v), ROne), RSub(RMul(d, d), ROne))

\* a mutation of ConvertBranch: the start == end test is missing
ConvertBranchNoSame(start, end) ==
    IF start = "avg" /\ end = "dep" THEN "avg_dep"
    ELSE IF start = "avg" /\ end = "proc" THEN "avg_proc"
    ELSE IF start = "dep" /\ end = "avg" THEN "dep_avg"
    ELSE IF start = "dep" /\ end = "proc" THEN "dep_proc"
    ELSE IF start = "proc" /\ end = "avg" THEN "proc_avg"
    ELSE IF start = "proc" /\ end = "dep" THEN "proc_dep"
    ELSE "else"

\* a mutation of ConvertBranch: the last elif is a plain else, so every
\* pair without an equation of its own is converted as proc -> dep
ConvertBranchNoElse(start, end) ==
    IF start = end THEN "same"
    ELSE IF start = "avg" /\ end = "dep" THEN "avg_dep"
    ELSE IF start = "avg" /\ end = "proc" THEN "avg_proc"
    ELSE IF start = "dep" /\ end = "avg" THEN "dep_avg"
    ELSE IF start = "dep" /\ end = "proc" THEN "dep_proc"
    ELSE IF start = "proc" /\ end = "avg" THEN "proc_avg"
    ELSE "proc_dep"

\* the if / elif / else ladder of convert, in the code's order
ConvertBranch(start, end) ==
    IF start = end THEN "same"
    ELSE IF start = "avg" /\ end = "dep" THEN "avg_dep"
    ELSE IF start = "avg" /\ end = "proc" THEN "avg_proc"
    ELSE IF start = "dep" /\ end = "avg" THEN "dep_avg"
    ELSE IF start = "dep" /\ end = "proc" THEN "dep_proc"
    ELSE IF start = "proc" /\ end = "avg" THEN "proc_avg"
    ELSE IF start = "proc" /\ end = "dep" THEN "proc_dep"
    ELSE "else"

\* the value convert returns (or the exception it ends in); value is a
\* Python value, d a machine integer: d = float(d) makes it a float
convert(value, d, start, end) ==
    LET df == R(d, 1)
        br == ConvertBranch(start, end)
    IN  IF br = "same" THEN value
        ELSE IF br = "else" THEN PyNone
        ELSE IF value.tag # "float" THEN PyRaise("TypeError")
        ELSE IF br = "avg_dep" THEN avg_to_dep(value.val, df)
        ELSE IF br = "avg_proc" THEN avg_to_proc(value.val, df)
        ELSE IF br = "dep_avg" THEN dep_to_avg(value.val, df)
        ELSE IF br = "dep_proc" THEN dep_to_proc(value.val, df)
        ELSE IF br = "proc_avg" THEN proc_to_avg(value.val, df)
        ELSE proc_to_dep(value.val, df)

\* what convert prints: print(f'No equation for start = {start} and end = {end}')
convert_print(start, end) ==
    IF ConvertBranch(start, end) = "else"
    THEN << [text |-> "No equation for", start |-> start, end |-> end] >>
    ELSE << >>

-----------------------------------------------------------------------------
(* Values of the variables of the components that a specification leaves   *)
(* out.                                                                    *)

IdleConvert ==
    /\ cv_value = PyNone
    /\ cv_d = 0
    /\ cv_chain = << >>
    /\ cv_outs = << >>
    /\ stdout = << >>

IdleBounds ==
    /\ ob_success = PyNone
    /\ ob_trials = 0
    /\ ob_ret = PyNone

IdleBootstrap ==
    /\ qv_fitter = << >>
    /\ reps = 0
    /\ ntrials = << >>
    /\ run1 = << >>
    /\ run2 = << >>

IdleErrors ==
    /\ error = RZero
    /\ etype = ""
    /\ error_dict = << >>
    /\ slice_fid = PyNone

IdleThreshold ==
    /\ evals = << >>
    /\ act_success = << >>
    /\ cs = << >>
    /\ sol = << >>
    /\ pe_ret = PyNone

convertVars == << cv_value, cv_d, cv_chain, cv_outs, stdout >>

boundsVars == << ob_success, ob_trials, ob_ret >>

bootstrapVars == << qv_fitter, reps, ntrials, run1, run2 >>

errorsVars == << error, etype, error_dict, slice_fid >>

thresholdVars == << evals, act_success, cs, sol, pe_ret >>

-----------------------------------------------------------------------------
(* Calls of convert.  A caller converts a number and may pass what it got  *)
(* to convert again, from the kind it has to another kind.                 *)

\* the largest dimension d passed to convert
MaxDim == 4

\* the largest number of successive calls of convert
MaxChain == 2

\* the kinds convert has equations for
FidelityKinds == {"avg", "dep", "proc"}

\* kind strings a caller may pass: the three kinds and two unknown ones
Kinds == FidelityKinds \cup {"fid", "infid"}

\* numbers passed as value
Values ==
    { PyFloat(R(0, 1)), PyFloat(R(1, 2)), PyFloat(R(99, 100)), PyFloat(R(1, 1)),
      PyFloat(R(-1, 3)), PyFloat(R(3, 2)) }

InitConvert ==
    /\ pc = "convert"
    /\ cv_value \in Values
    /\ cv_d \in 1..MaxDim
    /\ cv_chain \in { <<k>> : k \in Kinds }
    /\ cv_outs = << >>
    /\ stdout = << >>
    /\ IdleBounds /\ IdleBootstrap /\ IdleErrors /\ IdleThreshold

\* the value passed to the i-th call of the chain
CallArg(i) == IF i = 1 THEN cv_value ELSE cv_outs[i - 1]

\* out = convert(value, d, start, end); an exception propagates to the caller
ConvertCall ==
    /\ pc = "convert"
    /\ Len(cv_outs) < MaxChain
    /\ \E end \in Kinds :
          LET start == cv_chain[Len(cv_chain)]
              out == convert(CallArg(Len(cv_outs) + 1), cv_d, start, end)
          IN  /\ cv_outs' = Append(cv_outs, out)
              /\ cv_chain' = Append(cv_chain, end)
              /\ stdout' = stdout \o convert_print(start, end)
              /\ pc' = IF IsRaise(out) THEN "raised" ELSE "convert"
    /\ UNCHANGED << cv_value, cv_d >>
    /\ UNCHANGED << boundsVars, bootstrapVars, errorsVars, thresholdVars >>

NextConvert == ConvertCall

SpecConvert == InitConvert /\ [][NextConvert]_vars

Range(s) == { s[i] : i \in 1..Len(s) }

NoEquationLine(start, end) ==
    [text |-> "No equation for", start |-> start, end |-> end]

(* C1: for d in {2, 4} and kinds a, b among avg, dep, proc, converting a    *)
(* number from a to b and the result back from b to a returns the number   *)
(* (exactly, in rational arithmetic).                                      *)
C1_RoundTrip ==
    \A i \in 1..(Len(cv_outs) - 1) :
        ( /\ cv_d \in {2, 4}
          /\ cv_chain[i] \in FidelityKinds
          /\ cv_chain[i + 1] \in FidelityKinds
          /\ cv_chain[i + 2] = cv_chain[i]
          /\ CallArg(i).tag = "float" )
        => /\ cv_outs[i + 1].tag = "float"
           /\ REq(cv_outs[i + 1].val, CallArg(i).val)

\* a number went dep -> proc -> dep in dimension 4, changed on the way and came back
C1_Witness ==
    \E i \in 1..(Len(cv_outs) - 1) :
        /\ cv_d = 4
        /\ cv_chain[i] = "dep" /\ cv_chain[i + 1] = "proc" /\ cv_chain[i + 2] = "dep"
        /\ CallArg(i).tag = "float" /\ cv_outs[i].tag = "float"
        /\ ~REq(cv_outs[i].val, CallArg(i).val)
        /\ REq(cv_outs[i + 1].val, CallArg(i).val)

(* C2 as stated: a call of convert in which start or end is not one of     *)
(* avg, dep, proc never returns a number: it returns None and prints the   *)
(* 'No equation' line.                                                     *)
C2_UnknownKindNeverNumeric ==
    \A i \in 1..Len(cv_outs) :
        (cv_chain[i] \notin FidelityKinds \/ cv_chain[i + 1] \notin FidelityKinds)
        => /\ cv_outs[i] = PyNone
           /\ NoEquationLine(cv_chain[i], cv_chain[i + 1]) \in Range(stdout)

(* C2 amended: a call of convert with start # end in which start or end is *)
(* not one of avg, dep, proc returns None, whatever value and d are (no    *)
(* arithmetic is done on value: neither a None value nor d = 1 makes it    *)
(* fail), and prints the 'No equation' line naming start and end.          *)
C2_UnsupportedPairIsNone ==
    \A i \in 1..Len(cv_outs) :
        ( /\ cv_chain[i] # cv_chain[i + 1]
          /\ (cv_chain[i] \notin FidelityKinds \/ cv_chain[i + 1] \notin FidelityKinds) )
        => /\ cv_outs[i] = PyNone
           /\ NoEquationLine(cv_chain[i], cv_chain[i + 1]) \in Range(stdout)

\* convert(0.99, 1, 'avg', 'fid') returned None although avg -> dep would divide by zero
C2_Witness ==
    /\ Len(cv_outs) >= 1
    /\ cv_d = 1
    /\ cv_chain[1] = "avg" /\ cv_chain[2] = "fid"
    /\ cv_value = PyFloat(R(99, 100))
    /\ cv_outs[1] = PyNone
    /\ stdout # << >>

(* C3: convert(v, d, k, k) returns v unchanged for every value v, every     *)
(* dimension d and every kind string k.                                    *)
C3_Identity ==
    \A i \in 1..Len(cv_outs) :
        cv_chain[i] = cv_chain[i + 1] => cv_outs[i] = CallArg(i)

\* convert(0.99, 1, 'avg', 'avg') returned 0.99 in a dimension where avg -> dep fails
C3_Witness ==
    /\ Len(cv_outs) >= 1
    /\ cv_d = 1
    /\ cv_chain[1] = "avg" /\ cv_chain[2] = "avg"
    /\ cv_value = PyFloat(R(99, 100))
    /\ cv_outs[1] = cv_value

(* C14: for d in {2, 4}, every number v and every three distinct kinds    *)
(* a, b, c among avg, dep, proc, convert(convert(v, d, a, b), d, b, c) is  *)
(* the number convert(v, d, a, c) (exactly, in rational arithmetic).       *)
C14_PathIndependent ==
    \A i \in 1..(Len(cv_outs) - 1) :
        ( /\ cv_d \in {2, 4}
          /\ {cv_chain[i], cv_chain[i + 1], cv_chain[i + 2]} = FidelityKinds
          /\ CallArg(i).tag = "float" )
        => LET direct == convert(CallArg(i), cv_d, cv_chain[i], cv_chain[i + 2])
           IN  /\ cv_outs[i + 1].tag = "float"
               /\ direct.tag = "float"
               /\ REq(cv_outs[i + 1].val, direct.val)

\* 0.99 went proc -> dep -> avg in dimension 2 and arrived at the value of
\* proc -> avg, (2*0.99 + 1)/3, which is none of the two values before it
C14_Witness ==
    /\ Len(cv_outs) = 2
    /\ cv_d = 2
    /\ cv_chain = << "proc", "dep", "avg" >>
    /\ cv_value = PyFloat(R(99, 100))
    /\ cv_outs[1].tag = "float" /\ cv_outs[2].tag = "float"
    /\ ~REq(cv_outs[1].val, cv_value.val)
    /\ ~REq(cv_outs[2].val, cv_outs[1].val)
    /\ REq(cv_outs[2].val, R(298, 300))

-----------------------------------------------------------------------------
(* original_bounds (src/qtm_qv/analysis_functions.py)                       *)
(*                                                                         *)
(* The argument success is a Python float or a numpy.float64 (the caller   *)
(* in plotting_functions.py passes np.mean(...), a numpy.float64).  They   *)
(* differ in division by zero: a Python float raises ZeroDivisionError, a  *)
(* numpy.float64 warns and yields inf or nan.                              *)
(*                                                                         *)
(* An extended rational is [kind, val], kind one of finite, inf, -inf,     *)
(* nan.  A surd is [kind, a, b, q]: the number a + b*sqrt(q) when finite.  *)

XFinite(x) == [kind |-> "finite", val |-> x]

XSpecial(kind) == [kind |-> kind, val |-> RZero]

SFinite(a, b, q) == [kind |-> "finite", a |-> a, b |-> b, q |-> q]

SSpecial(kind) == [kind |-> kind, a |-> RZero, b |-> RZero, q |-> RZero]

SOfRat(x) == SFinite(x, RZero, RZero)

FlipInf(kind) ==
    IF kind = "inf" THEN "-inf" ELSE IF kind = "-inf" THEN "inf" ELSE kind

\* np.sqrt
np_sqrt(x) ==
    IF x.kind = "finite"
    THEN IF RSign(x.val) < 0 THEN SSpecial("nan") ELSE SFinite(RZero, ROne, x.val)
    ELSE IF x.kind = "inf" THEN SSpecial("inf") ELSE SSpecial("nan")

\* c * s for a rational c # 0
SMulR(c, s) ==
    IF s.kind = "finite" THEN SFinite(RMul(c, s.a), RMul(c, s.b), s.q)
    ELSE IF RSign(c) < 0 THEN SSpecial(FlipInf(s.kind)) ELSE s

\* x + s for a rational x
RAddS(x, s) ==
    IF s.kind = "finite" THEN SFinite(RAdd(x, s.a), s.b, s.q) ELSE s

\* x - s for a rational x
RSubS(x, s) == RAddS(x, SMulR(R(-1, 1), s))

\* s + t and s - t for finite surds over the same q
SAdd(s, t) == SFinite(RAdd(s.a, t.a), RAdd(s.b, t.b), s.q)

SSub(s, t) == SFinite(RSub(s.a, t.a), RSub(s.b, t.b), s.q)

\* s * s for a finite surd
SSquare(s) ==
    SFinite(RAdd(RMul(s.a, s.a), RMul(RMul(s.b, s.b), s.q)),
            RMul(R(2, 1), RMul(s.a, s.b)), s.q)

\* the sign of a finite surd a + b*sqrt(q), q >= 0
SSign(s) ==
    LET sa == RSign(s.a)
        sb == IF RSign(s.q) = 0 THEN 0 ELSE RSign(s.b)
        c == RCmp(RMul(s.a, s.a), RMul(RMul(s.b, s.b), s.q))
    IN  IF sa = 0 THEN sb
        ELSE IF sb = 0 \/ sa = sb THEN sa
        ELSE IF c = 0 THEN 0
        ELSE IF c > 0 THEN sa ELSE sb

\* the order of a finite surd and a rational
SCmpR(s, x) == SSign(SFinite(RSub(s.a, x), s.b, s.q))

\* success*(1 - success)/trials
ob_variance(success, trials) ==
    LET num == RMul(success.val, RSub(ROne, success.val))
    IN  IF trials # 0 THEN XFinite(RDiv(num, R(trials, 1)))
        ELSE IF success.type = "float" THEN XSpecial("ZeroDivisionError")
        ELSE IF RSign(num) > 0 THEN XSpecial("inf")
        ELSE IF RSign(num) < 0 THEN XSpecial("-inf")
        ELSE XSpecial("nan")

\* a mutation of lower_ci_of: the bound is clipped to 0 from below
lower_ci_clipped(success, sigma) ==
    LET lo == RSubS(success.val, SMulR(R(2, 1), sigma))
    IN  IF lo.kind = "finite" /\ SSign(lo) < 0 THEN SOfRat(RZero) ELSE lo

\* lower_ci = success - 2*sigma
lower_ci_of(success, sigma) == RSubS(success.val, SMulR(R(2, 1), sigma))

\* upper_ci = success + 2*sigma
upper_ci_of(success, sigma) == RAddS(success.val, SMulR(R(2, 1), sigma))

\* the outcome of original_bounds(success, trials)
original_bounds(success, trials) ==
    LET v == ob_variance(success, trials)
        sigma == np_sqrt(v)
    IN  IF v.kind = "ZeroDivisionError"
        THEN [tag |-> "ZeroDivisionError", lower_ci |-> SSpecial("nan"),
              upper_ci |-> SSpecial("nan")]
        ELSE [tag |-> "return", lower_ci |-> lower_ci_of(success, sigma),
              upper_ci |-> upper_ci_of(success, sigma)]

\* the largest trial count passed to original_bounds
MaxObTrials == 5

\* success fractions passed are the multiples of 1/SuccessDen in [0, 1]
SuccessDen == 4

FloatTypes == {"float", "float64"}

InitBounds ==
    /\ pc = "original_bounds"
    /\ ob_success \in { [type |-> t, val |-> R(k, SuccessDen)] :
                          t \in FloatTypes, k \in 0..SuccessDen }
    /\ ob_trials \in 0..MaxObTrials
    /\ ob_ret = PyNone
    /\ IdleConvert /\ IdleBootstrap /\ IdleErrors /\ IdleThreshold

\* lower_ci, upper_ci = original_bounds(success, trials)
OriginalBoundsCall ==
    /\ pc = "original_bounds"
    /\ ob_ret' = original_bounds(ob_success, ob_trials)
    /\ pc' = IF ob_ret'.tag = "return" THEN "returned" ELSE "raised"
    /\ UNCHANGED << ob_success, ob_trials >>
    /\ UNCHANGED << convertVars, bootstrapVars, errorsVars, thresholdVars >>

NextBounds == OriginalBoundsCall

SpecBounds == InitBounds /\ [][NextBounds]_vars

ObCalled == pc \in {"returned", "raised"}

(* C5: for 0 < p < 1 and n > 0, original_bounds(p, n) returns finite        *)
(* bounds with lower < p < upper, lower + upper = 2p and                   *)
(* (upper - lower)^2 = 16 p (1 - p) / n; neither bound is clipped to       *)
(* [0, 1].                                                                 *)
C5_AnalyticBound ==
    ( /\ ObCalled
      /\ RSign(ob_success.val) > 0 /\ RLt(ob_success.val, ROne)
      /\ ob_trials > 0 )
    => /\ ob_ret.tag = "return"
       /\ ob_ret.lower_ci.kind = "finite" /\ ob_ret.upper_ci.kind = "finite"
       /\ SCmpR(ob_ret.lower_ci, ob_success.val) < 0
       /\ SCmpR(ob_ret.upper_ci, ob_success.val) > 0
       /\ SCmpR(SAdd(ob_ret.lower_ci, ob_ret.upper_ci),
                RMul(R(2, 1), ob_success.val)) = 0
       /\ SCmpR(SSquare(SSub(ob_ret.upper_ci, ob_ret.lower_ci)),
                RDiv(RMul(R(16, 1),
                          RMul(ob_success.val, RSub(ROne, ob_success.val))),
                     R(ob_trials, 1))) = 0

\* original_bounds(0.5, 1) returned (-0.5, 1.5): both bounds outside [0, 1]
C5_Witness ==
    /\ pc = "returned"
    /\ REq(ob_success.val, R(1, 2)) /\ ob_trials = 1
    /\ ob_ret.lower_ci.kind = "finite" /\ ob_ret.upper_ci.kind = "finite"
    /\ SCmpR(ob_ret.lower_ci, R(-1, 2)) = 0
    /\ SCmpR(ob_ret.upper_ci, R(3, 2)) = 0

(* C6: original_bounds called with trials = 0 ends in an error that        *)
(* propagates to the caller; it never returns a pair of bounds, whatever   *)
(* success is.                                                             *)
C6_ZeroTrialsRaises ==
    (ObCalled /\ ob_trials = 0) => (pc = "raised" /\ ob_ret.tag # "return")

-----------------------------------------------------------------------------
(* bootstrap and bootstrap_bounds (src/qtm_qv/analysis_functions.py)        *)
(*                                                                         *)
(* qv_fitter is [heavy, shots]: heavy[i + 1] and shots[i + 1] stand for    *)
(* heavy_output_counts and _circ_shots at key 'qv_depth_{n}_trial_{i}'.    *)
(* The argument ntrials is an int or None.  A bound is a number            *)
(* a + b*erf(sqrt 2), [kind, a, b], or nan.                                *)

NtNone == [tag |-> "None", n |-> 0]

NtInt(k) == [tag |-> "int", n |-> k]

AFinite(a, b) == [kind |-> "finite", a |-> a, b |-> b]

ANan == [kind |-> "nan", a |-> RZero, b |-> RZero]

AEq(x, y) ==
    /\ x.kind = y.kind
    /\ x.kind = "finite" => (REq(x.a, y.a) /\ REq(x.b, y.b))

NTrialsOf(fitter) == Len(fitter.heavy)

\* if not ntrials: ntrials = len(qv_fitter.heavy_output_counts)
bootstrap_ntrials(fitter, nt) ==
    IF nt.tag = "None" \/ nt.n = 0 THEN NTrialsOf(fitter) ELSE nt.n

RECURSIVE SumSeq(_)
SumSeq(s) == IF s = << >> THEN 0 ELSE Head(s) + SumSeq(Tail(s))

RECURSIVE RSumSeq(_)
RSumSeq(s) == IF s = << >> THEN RZero ELSE RAdd(Head(s), RSumSeq(Tail(s)))

\* all sequences that take their i-th element from the i-th set
RECURSIVE Product(_)
Product(sets) ==
    IF sets = << >> THEN { << >> }
    ELSE { <<x>> \o t : x \in Head(sets), t \in Product(Tail(sets)) }

\* np.random.randint(0, ntrials, size=(reps, ntrials)): the matrices it can
\* return, row after row in one sequence
randint_outcomes(n, r) == Product([i \in 1..(r * n) |-> 0..(n - 1)])

\* shot_list[resampled_ind]
resampled_shots(fitter, ind) == [i \in 1..Len(ind) |-> fitter.shots[ind[i] + 1]]

\* success_list[resampled_ind]
resampled_heavy(fitter, ind) == [i \in 1..Len(ind) |-> fitter.heavy[ind[i] + 1]]

\* the values one draw of Binomial(n, h/n) can take
binomial_support(n, h) ==
    IF h = 0 THEN {0} ELSE IF h = n THEN {n} ELSE 0..n

\* np.random.binomial(resampled_shots, resampled_probs): the matrices it can return
binomial_outcomes(fitter, ind) ==
    Product([i \in 1..Len(ind) |->
                binomial_support(resampled_shots(fitter, ind)[i],
                                 resampled_heavy(fitter, ind)[i])])

\* row r (from 1) of a matrix with n columns kept as one sequence
Row(m, n, r) == SubSeq(m, (r - 1) * n + 1, r * n)

\* a mutation of resampled_row: the unweighted mean of the per-trial fractions
resampled_row_unweighted(fitter, ind, draws, n, r) ==
    LET sh == Row(resampled_shots(fitter, ind), n, r)
        dr == Row(draws, n, r)
    IN  RDiv(RSumSeq([j \in 1..n |-> R(dr[j], sh[j])]), R(n, 1))

\* np.sum(binomial draws, axis=1) / np.sum(resampled_shots, axis=1), at row r
resampled_row(fitter, ind, draws, n, r) ==
    R(SumSeq(Row(draws, n, r)), SumSeq(Row(resampled_shots(fitter, ind), n, r)))

\* resampled_success, the array bootstrap returns
resampled_success(fitter, ind, draws, n, r) ==
    [k \in 1..r |-> resampled_row(fitter, ind, draws, n, k)]

\* the sorted copy np.quantile works on
RECURSIVE Insert(_, _)
Insert(x, s) ==
    IF s = << >> THEN <<x>>
    ELSE IF RLe(x, Head(s)) THEN <<x>> \o s
    ELSE <<Head(s)>> \o Insert(x, Tail(s))

RECURSIVE Sorted(_)
Sorted(s) == IF s = << >> THEN << >> ELSE Insert(Head(s), Sorted(Tail(s)))

\* erf(sqrt(2)) = 0.95449973..., to four places; used to take the floor of
\* the virtual index and to enclose erf(sqrt(2)) when two bounds are ordered
ErfNum == 9545

ErfDen == 10000

\* np.quantile(arr, 1/2 + sgn*erf(np.sqrt(2))/2), sgn = 1 or -1, by linear
\* interpolation: virtual index h = (n - 1)*q, j = floor(h), gamma = h - j,
\* result arr[j] + (arr[j + 1] - arr[j])*gamma on the sorted array
np_quantile(arr, sgn) ==
    LET n == Len(arr)
        srt == Sorted(arr)
        j == ((n - 1) * (ErfDen + sgn * ErfNum)) \div (2 * ErfDen)
        nxt == IF j + 1 > n - 1 THEN n - 1 ELSE j + 1
        ga == RSub(R(n - 1, 2), R(j, 1))
        gb == R(sgn * (n - 1), 2)
        lo == srt[j + 1]
        diff == RSub(srt[nxt + 1], lo)
    IN  AFinite(RAdd(lo, RMul(diff, ga)), RMul(diff, gb))

\* x + y and x - y on bounds; nan if either is nan
AAdd(x, y) ==
    IF x.kind = "nan" \/ y.kind = "nan" THEN ANan
    ELSE AFinite(RAdd(x.a, y.a), RAdd(x.b, y.b))

ASub(x, y) ==
    IF x.kind = "nan" \/ y.kind = "nan" THEN ANan
    ELSE AFinite(RSub(x.a, y.a), RSub(x.b, y.b))

\* x <= y on bounds (False when either is nan): the sign of
\* (y - x) = a + b*erf(sqrt 2) is settled by the enclosure
\* (ErfNum - 1)/ErfDen < erf(sqrt 2) < (ErfNum + 1)/ErfDen
ALe(x, y) ==
    /\ x.kind = "finite" /\ y.kind = "finite"
    /\ LET dd == ASub(y, x)
           e == IF RSign(dd.b) >= 0 THEN R(ErfNum - 1, ErfDen)
                                    ELSE R(ErfNum + 1, ErfDen)
       IN  RLe(RZero, RAdd(dd.a, RMul(dd.b, e)))

\* a mutation of qv_mean_of: the pooled ratio sum(heavy)/sum(shots) of the
\* first k trials
qv_mean_pooled(fitter, k) ==
    IF k = 0 THEN ANan
    ELSE AFinite(R(SumSeq(SubSeq(fitter.heavy, 1, k)),
                   SumSeq(SubSeq(fitter.shots, 1, k))),
                 RZero)

\* np.mean([heavy_i/shots_i for i in range(k)]); nan for an empty list
qv_mean_of(fitter, k) ==
    IF k = 0 THEN ANan
    ELSE AFinite(RDiv(RSumSeq([i \in 1..k |-> R(fitter.heavy[i], fitter.shots[i])]),
                      R(k, 1)),
                 RZero)

\* 2*qv_mean - quantile
reflect(mean, quant) ==
    IF mean.kind = "nan" THEN ANan
    ELSE AFinite(RSub(RMul(R(2, 1), mean.a), quant.a), RNeg(quant.b))

BbReturn(lo, hi) == [tag |-> "return", lower_ci |-> lo, upper_ci |-> hi]

BbRaise(exc) == [tag |-> exc, lower_ci |-> ANan, upper_ci |-> ANan]

BbPending == [tag |-> "pending", lower_ci |-> ANan, upper_ci |-> ANan]

\* lines 45-52 of bootstrap_bounds: range(ntrials) on the argument ntrials
bounds_of(fitter, nt, success) ==
    IF nt.tag = "None" THEN BbRaise("TypeError")
    ELSE LET qv_mean == qv_mean_of(fitter, nt.n)
         IN  BbReturn(reflect(qv_mean, np_quantile(success, 1)),
                      reflect(qv_mean, np_quantile(success, -1)))

\* the frame of one call of bootstrap_bounds
NewRun ==
    [ntrials |-> 0, resampled_ind |-> << >>, draws |-> << >>,
     success |-> << >>, ret |-> BbPending]

\* lines 65-78: ntrials defaulted, shot_list and success_list built (KeyError
\* for a trial the fitter does not hold), resampled_ind drawn
randint_step(run, fitter, nt, ind) ==
    IF bootstrap_ntrials(fitter, nt) > NTrialsOf(fitter)
    THEN [run EXCEPT !.ntrials = bootstrap_ntrials(fitter, nt),
                     !.ret = BbRaise("KeyError")]
    ELSE [run EXCEPT !.ntrials = bootstrap_ntrials(fitter, nt),
                     !.resampled_ind = ind]

\* lines 79-86: the binomial draws and resampled_success
binomial_step(run, fitter, r, draws) ==
    [run EXCEPT !.draws = draws,
                !.success = resampled_success(fitter, run.resampled_ind, draws,
                                              run.ntrials, r)]

\* lines 45-52: qv_mean, the two quantiles, the bounds
bounds_step(run, fitter, nt) ==
    [run EXCEPT !.ret = bounds_of(fitter, nt, run.success)]

-----------------------------------------------------------------------------
(* Calls of bootstrap_bounds.                                              *)

\* the largest resample count reps
MaxReps == 2

\* fitters: one trial; two trials with unequal shot counts, one of them
\* with a success fraction strictly between 0 and 1; two trials whose
\* success fractions are 1 and 0
Fitters ==
    { [heavy |-> <<1>>, shots |-> <<2>>],
      [heavy |-> <<1, 1>>, shots |-> <<1, 2>>],
      [heavy |-> <<2, 0>>, shots |-> <<2, 1>>] }

\* ntrials as passed: left out, 0, a prefix of the trials, all of them, one too many
NTrialsArgs(fitter) == {NtNone} \cup { NtInt(k) : k \in 0..(NTrialsOf(fitter) + 1) }

InitBootstrap ==
    /\ pc = "bootstrap_bounds"
    /\ qv_fitter \in Fitters
    /\ reps \in 1..MaxReps
    /\ ntrials \in NTrialsArgs(qv_fitter)
    /\ run1 = NewRun
    /\ run2 = NewRun
    /\ IdleConvert /\ IdleBounds /\ IdleErrors /\ IdleThreshold

\* the matrices randint can return in this call; nothing is drawn when
\* building shot_list has raised KeyError
IndChoices ==
    IF bootstrap_ntrials(qv_fitter, ntrials) > NTrialsOf(qv_fitter)
    THEN { << >> }
    ELSE randint_outcomes(bootstrap_ntrials(qv_fitter, ntrials), reps)

AfterRandint(run) == IF run.ret.tag = "KeyError" THEN "raised" ELSE "binomial"

AfterBounds(run) == IF run.ret.tag = "return" THEN "returned" ELSE "raised"

\* bootstrap_bounds calls bootstrap, which runs up to np.random.randint
Randint ==
    /\ pc = "bootstrap_bounds"
    /\ \E ind \in IndChoices :
          run1' = randint_step(run1, qv_fitter, ntrials, ind)
    /\ pc' = AfterRandint(run1')
    /\ UNCHANGED << qv_fitter, reps, ntrials, run2 >>
    /\ UNCHANGED << convertVars, boundsVars, errorsVars, thresholdVars >>

\* bootstrap draws the binomial counts and returns resampled_success
Binomial ==
    /\ pc = "binomial"
    /\ \E draws \in binomial_outcomes(qv_fitter, run1.resampled_ind) :
          run1' = binomial_step(run1, qv_fitter, reps, draws)
    /\ pc' = "quantile"
    /\ UNCHANGED << qv_fitter, reps, ntrials, run2 >>
    /\ UNCHANGED << convertVars, boundsVars, errorsVars, thresholdVars >>

\* bootstrap_bounds computes qv_mean and the reflected quantiles and returns
Bounds ==
    /\ pc = "quantile"
    /\ run1' = bounds_step(run1, qv_fitter, ntrials)
    /\ pc' = AfterBounds(run1')
    /\ UNCHANGED << qv_fitter, reps, ntrials, run2 >>
    /\ UNCHANGED << convertVars, boundsVars, errorsVars, thresholdVars >>

NextBootstrap == Randint \/ Binomial \/ Bounds

SpecBootstrap == InitBootstrap /\ [][NextBootstrap]_vars

(* Two calls of bootstrap_bounds on the same arguments, each started from  *)
(* the same state of the global generator np.random, advanced together:    *)
(* at the same position of its stream the generator, asked the same        *)
(* question, gives the second call what it gave the first.                 *)

\* a mutation of seeded_outcomes: the call draws from a generator of its
\* own (np.random.default_rng()), which the seed does not reach
unseeded_outcomes(first, outcomes) == outcomes

\* what np.random.randint / np.random.binomial can return to a call whose
\* twin, started from the same seed, got the value first
seeded_outcomes(first, outcomes) ==
    IF first \in outcomes THEN {first} ELSE outcomes

RandintTwice ==
    /\ pc = "bootstrap_bounds"
    /\ \E ind \in IndChoices :
          \E ind2 \in seeded_outcomes(ind, IndChoices) :
              /\ run1' = randint_step(run1, qv_fitter, ntrials, ind)
              /\ run2' = randint_step(run2, qv_fitter, ntrials, ind2)
    /\ pc' = AfterRandint(run1')
    /\ UNCHANGED << qv_fitter, reps, ntrials >>
    /\ UNCHANGED << convertVars, boundsVars, errorsVars, thresholdVars >>

BinomialTwice ==
    /\ pc = "binomial"
    /\ \E draws \in binomial_outcomes(qv_fitter, run1.resampled_ind) :
          \E draws2 \in seeded_outcomes(draws,
                           binomial_outcomes(qv_fitter, run2.resampled_ind)) :
              /\ run1' = binomial_step(run1, qv_fitter, reps, draws)
              /\ run2' = binomial_step(run2, qv_fitter, reps, draws2)
    /\ pc' = "quantile"
    /\ UNCHANGED << qv_fitter, reps, ntrials >>
    /\ UNCHANGED << convertVars, boundsVars, errorsVars, thresholdVars >>

BoundsTwice ==
    /\ pc = "quantile"
    /\ run1' = bounds_step(run1, qv_fitter, ntrials)
    /\ run2' = bounds_step(run2, qv_fitter, ntrials)
    /\ pc' = AfterBounds(run1')
    /\ UNCHANGED << qv_fitter, reps, ntrials >>
    /\ UNCHANGED << convertVars, boundsVars, errorsVars, thresholdVars >>

NextReplay == RandintTwice \/ BinomialTwice \/ BoundsTwice

SpecReplay == InitBootstrap /\ [][NextReplay]_vars

\* bootstrap has returned resampled_success to bootstrap_bounds
BootstrapReturned ==
    \/ pc \in {"quantile", "returned"}
    \/ pc = "raised" /\ run1.ret.tag = "TypeError"

\* bootstrap_bounds has returned or raised
BoundsEnded == pc \in {"returned", "raised"}

(* C4: bootstrap_bounds called with ntrials left unspecified (None) does    *)
(* not fail: it returns the bounds it returns when ntrials is the number   *)
(* of trials the fitter holds, qv_mean being taken over all trials.        *)
C4_DefaultNtrials ==
    (BoundsEnded /\ ntrials = NtNone)
    => /\ run1.ret.tag = "return"
       /\ run1.ntrials = NTrialsOf(qv_fitter)
       /\ LET full == bounds_of(qv_fitter, NtInt(NTrialsOf(qv_fitter)), run1.success)
          IN  /\ AEq(run1.ret.lower_ci, full.lower_ci)
              /\ AEq(run1.ret.upper_ci, full.upper_ci)

(* C7: bootstrap returns reps values; value r is the pooled ratio          *)
(* (sum of the binomial draws of row r) / (sum of the shot counts of the   *)
(* trials drawn in row r), each draw being one of Binomial(shots, heavy /  *)
(* shots) of the trial drawn; every value lies in [0, 1].                  *)
C7_PooledRatio ==
    BootstrapReturned =>
        LET n == run1.ntrials
            shotAt(c) == qv_fitter.shots[run1.resampled_ind[c] + 1]
            heavyAt(c) == qv_fitter.heavy[run1.resampled_ind[c] + 1]
        IN  /\ Len(run1.success) = reps
            /\ Len(run1.resampled_ind) = reps * n
            /\ Len(run1.draws) = reps * n
            /\ \A c \in 1..(reps * n) :
                  /\ run1.resampled_ind[c] \in 0..(n - 1)
                  /\ run1.draws[c] \in 0..shotAt(c)
                  /\ heavyAt(c) = 0 => run1.draws[c] = 0
                  /\ heavyAt(c) = shotAt(c) => run1.draws[c] = shotAt(c)
            /\ \A r \in 1..reps :
                  LET cells == [j \in 1..n |-> (r - 1) * n + j]
                      drawn == SumSeq([j \in 1..n |-> run1.draws[cells[j]]])
                      shots == SumSeq([j \in 1..n |-> shotAt(cells[j])])
                  IN  /\ shots > 0
                      /\ REq(run1.success[r], R(drawn, shots))
                      /\ RLe(RZero, run1.success[r])
                      /\ RLe(run1.success[r], ROne)

\* a row drew the trial with 1 shot (1 heavy) and the trial with 2 shots
\* (0 heavy drawn): pooled 1/3, where the mean of the fractions is 1/2
C7_Witness ==
    /\ BootstrapReturned
    /\ qv_fitter = [heavy |-> <<1, 1>>, shots |-> <<1, 2>>]
    /\ run1.ntrials = 2
    /\ \E r \in 1..reps :
          /\ Row(run1.resampled_ind, 2, r) = <<0, 1>>
          /\ Row(run1.draws, 2, r) = <<1, 0>>
          /\ REq(run1.success[r], R(1, 3))

-----------------------------------------------------------------------------
(* convert_error_dict and estimate_errors (src/utils.py)                    *)
(*                                                                         *)
(* A dict is a function from its keys to numbers.                          *)

Channels ==
    {"sq_dep", "sq_coh", "sq_dph", "tq_dep", "tq_coh", "tq_dph", "tq_cross",
     "meas", "prep"}

default_dict == [k \in Channels |-> RZero]

\* 12/5+10 and 12/5+11
TwelveFifthsPlus(k) == RAdd(RDiv(R(12, 1), R(5, 1)), R(k, 1))

\* c*error/den, as in 10*error/(12/5+10)
Scaled(c, err, den) == RDiv(RMul(R(c, 1), err), den)

\* the dict of presets that convert_error_dict builds from error
edict(err) ==
    ("TQ Dep" :>
        (  "tq_dep" :> Scaled(10, err, TwelveFifthsPlus(10))
        @@ "sq_dep" :> RDiv(err, TwelveFifthsPlus(10))
        @@ "meas" :> err ))
    @@ ("SQ Dep" :>
        (  "sq_dep" :> Scaled(10, err, R(25, 1))
        @@ "tq_dep" :> RDiv(err, R(25, 1))
        @@ "meas" :> err ))
    @@ ("TQ Coh" :>
        (  "tq_coh" :> Scaled(10, err, TwelveFifthsPlus(10))
        @@ "sq_dep" :> RDiv(err, TwelveFifthsPlus(10))
        @@ "meas" :> err ))
    @@ ("Measure" :>
        (  "meas" :> RMul(R(10, 1), err)
        @@ "tq_dep" :> Scaled(10, err, TwelveFifthsPlus(10))
        @@ "sq_dep" :> RDiv(err, TwelveFifthsPlus(10)) ))
    @@ ("Realistic cross" :>
        (  "tq_cross" :> err
        @@ "tq_dep" :> Scaled(10, err, TwelveFifthsPlus(10))
        @@ "sq_dep" :> RDiv(err, TwelveFifthsPlus(10))
        @@ "meas" :> err ))
    @@ ("Realistic dph" :>
        (  "tq_dph" :> err
        @@ "tq_dep" :> Scaled(10, err, TwelveFifthsPlus(10))
        @@ "sq_dep" :> RDiv(err, TwelveFifthsPlus(10))
        @@ "meas" :> err ))
    @@ ("Uncontrolled" :>
        (  "tq_cross" :> R(1, 1000)
        @@ "tq_dph" :> RDiv(err, R(2, 1))
        @@ "tq_coh" :> RDiv(err, TwelveFifthsPlus(11))
        @@ "tq_dep" :> Scaled(10, err, TwelveFifthsPlus(11))
        @@ "sq_dep" :> RDiv(err, TwelveFifthsPlus(11))
        @@ "meas" :> err ))
    @@ ("Realistic coh" :>
        (  "tq_coh" :> Scaled(5, err, TwelveFifthsPlus(10))
        @@ "tq_dep" :> Scaled(5, err, TwelveFifthsPlus(10))
        @@ "sq_dep" :> RDiv(err, TwelveFifthsPlus(10))
        @@ "meas" :> err ))
    @@ ("Realistic all" :>
        (  "tq_cross" :> RDiv(err, R(2, 1))
        @@ "tq_dph" :> RDiv(err, R(2, 1))
        @@ "tq_coh" :> RDiv(err, TwelveFifthsPlus(11))
        @@ "tq_dep" :> Scaled(10, err, TwelveFifthsPlus(11))
        @@ "sq_dep" :> RDiv(err, TwelveFifthsPlus(11))
        @@ "meas" :> err ))

\* a mutation of dict_merge: the defaults are dropped
dict_merge_update_only(defaults, update) == update

\* {**defaults, **update}
dict_merge(defaults, update) ==
    [k \in (DOMAIN defaults) \cup (DOMAIN update) |->
        IF k \in DOMAIN update THEN update[k] ELSE defaults[k]]

DictValue(d) == [tag |-> "dict", d |-> d]

DictRaise(exc) == [tag |-> exc, d |-> << >>]

\* the outcome of convert_error_dict(error, etype)
convert_error_dict(err, et) ==
    IF et \in DOMAIN edict(err)
    THEN DictValue(dict_merge(default_dict, edict(err)[et]))
    ELSE DictRaise("KeyError")

\* x * y on Python values
PyMul(x, y) ==
    IF x.tag = "float" /\ y.tag = "float" THEN PyFloat(RMul(x.val, y.val))
    ELSE PyRaise("TypeError")

\* a mutation of channel_factor: the error itself is converted, not 1 - error
channel_factor_of_error(e, d) == convert(PyFloat(e), d, "avg", "dep")

\* convert(1 - error_dict[key], d, 'avg', 'dep')
channel_factor(e, d) == convert(PyFloat(RSub(ROne, e)), d, "avg", "dep")

\* the value estimate_errors returns for error_dict ed
estimate_errors(ed) ==
    LET times(acc, key, d) ==
            IF key \in DOMAIN ed THEN PyMul(acc, channel_factor(ed[key], d)) ELSE acc
        tq1 == times(PyFloat(ROne), "tq_dep", 4)
        tq2 == times(tq1, "tq_coh", 4)
        sq1 == times(PyFloat(ROne), "sq_dep", 2)
        sq2 == times(sq1, "sq_coh", 2)
        sq3 == times(sq2, "sq_dph", 2)
        tq3 == times(tq2, "tq_dph", 2)
        proc == convert(sq3, 2, "dep", "proc")
        sq4 == convert(PyMul(proc, proc), 4, "proc", "dep")
    IN  convert(PyMul(sq4, tq3), 4, "dep", "avg")

\* error magnitudes passed are the multiples of 1/(10*MagSteps) in [0, 1/10]
MagSteps == 4

Presets == DOMAIN edict(RZero)

\* preset names passed: the nine presets and a name that is none of them
ETypes == Presets \cup {"Realistic"}

InitErrors ==
    /\ pc = "convert_error_dict"
    /\ error \in { R(k, 10 * MagSteps) : k \in 0..MagSteps }
    /\ etype \in ETypes
    /\ error_dict = DictValue(<< >>)
    /\ slice_fid = PyNone
    /\ IdleConvert /\ IdleBounds /\ IdleBootstrap /\ IdleThreshold

\* error_dict = convert_error_dict(error, etype)
ConvertErrorDictCall ==
    /\ pc = "convert_error_dict"
    /\ error_dict' = convert_error_dict(error, etype)
    /\ pc' = IF error_dict'.tag = "dict" THEN "estimate_errors" ELSE "raised"
    /\ UNCHANGED << error, etype, slice_fid >>
    /\ UNCHANGED << convertVars, boundsVars, bootstrapVars, thresholdVars >>

\* slice_fid = estimate_errors(error_dict)
EstimateErrorsCall ==
    /\ pc = "estimate_errors"
    /\ slice_fid' = estimate_errors(error_dict.d)
    /\ pc' = "estimated"
    /\ UNCHANGED << error, etype, error_dict >>
    /\ UNCHANGED << convertVars, boundsVars, bootstrapVars, thresholdVars >>

NextErrors == ConvertErrorDictCall \/ EstimateErrorsCall

SpecErrors == InitErrors /\ [][NextErrors]_vars

\* the channels each preset lists
PresetChannels ==
       "TQ Dep" :> {"tq_dep", "sq_dep", "meas"}
    @@ "SQ Dep" :> {"sq_dep", "tq_dep", "meas"}
    @@ "TQ Coh" :> {"tq_coh", "sq_dep", "meas"}
    @@ "Measure" :> {"meas", "tq_dep", "sq_dep"}
    @@ "Realistic cross" :> {"tq_cross", "tq_dep", "sq_dep", "meas"}
    @@ "Realistic dph" :> {"tq_dph", "tq_dep", "sq_dep", "meas"}
    @@ "Uncontrolled" :> {"tq_cross", "tq_dph", "tq_coh", "tq_dep", "sq_dep", "meas"}
    @@ "Realistic coh" :> {"tq_coh", "tq_dep", "sq_dep", "meas"}
    @@ "Realistic all" :> {"tq_cross", "tq_dph", "tq_coh", "tq_dep", "sq_dep", "meas"}

(* C9: for each of the nine presets convert_error_dict returns a dict      *)
(* whose keys are exactly the nine channels, with 0 at every channel the   *)
(* preset does not list; for any other preset name it raises KeyError and  *)
(* returns no dict.                                                        *)
C9_PresetTable ==
    pc # "convert_error_dict" =>
        /\ DOMAIN PresetChannels = Presets
        /\ etype \in DOMAIN PresetChannels =>
              /\ error_dict.tag = "dict"
              /\ DOMAIN error_dict.d = Channels
              /\ \A k \in Channels \ PresetChannels[etype] :
                    REq(error_dict.d[k], RZero)
        /\ etype \notin DOMAIN PresetChannels =>
              /\ error_dict.tag = "KeyError"
              /\ pc = "raised"

\* 'Uncontrolled' at error 0.1 gave all nine channels, tq_cross 0.001 and prep 0
C9_Witness ==
    /\ pc = "estimate_errors"
    /\ etype = "Uncontrolled"
    /\ REq(error, R(1, 10))
    /\ DOMAIN error_dict.d = Channels
    /\ REq(error_dict.d["tq_cross"], R(1, 1000))
    /\ REq(error_dict.d["tq_dph"], R(1, 20))
    /\ REq(error_dict.d["prep"], RZero)

\* the preset has no channel whose value does not scale with error
NoConstantTerm(et) ==
    \A k \in DOMAIN edict(RZero)[et] : REq(edict(RZero)[et][k], RZero)

(* C10: for each of the nine presets and every error magnitude in          *)
(* [0, 0.1], estimate_errors(convert_error_dict(error, etype)) is a number *)
(* in [0, 1]; at error 0, for a preset without a constant channel term, it *)
(* is exactly 1.                                                           *)
C10_SliceFidelityRange ==
    pc = "estimated" =>
        /\ slice_fid.tag = "float"
        /\ RLe(RZero, slice_fid.val)
        /\ RLe(slice_fid.val, ROne)
        /\ (REq(error, RZero) /\ NoConstantTerm(etype)) => REq(slice_fid.val, ROne)

\* 'Realistic all' at error 0.1 gave a slice fidelity strictly inside (0, 1)
C10_Witness ==
    /\ pc = "estimated"
    /\ etype = "Realistic all"
    /\ REq(error, R(1, 10))
    /\ slice_fid.tag = "float"
    /\ RLt(RZero, slice_fid.val)
    /\ RLt(slice_fid.val, ROne)

\* the pipeline with every channel converted in the dimension of its gate
\* type: d = 2 for the sq_ channels, d = 4 for the tq_ channels
slice_fid_by_gate_type(ed) ==
    LET times(acc, key, d) ==
            IF key \in DOMAIN ed THEN PyMul(acc, channel_factor(ed[key], d)) ELSE acc
        sq == times(times(times(PyFloat(ROne), "sq_dep", 2), "sq_coh", 2), "sq_dph", 2)
        tq == times(times(times(PyFloat(ROne), "tq_dep", 4), "tq_coh", 4), "tq_dph", 4)
        proc == convert(sq, 2, "dep", "proc")
        sq_dep == convert(PyMul(proc, proc), 4, "proc", "dep")
    IN  convert(PyMul(sq_dep, tq), 4, "dep", "avg")

(* C13: estimate_errors returns the product pipeline in which each channel *)
(* 1 - e is converted avg -> dep in the dimension of its gate type (2 for  *)
(* sq_dep, sq_coh, sq_dph; 4 for tq_dep, tq_coh, tq_dph), the single-qubit *)
(* product goes dep -> proc in d = 2, is squared and goes proc -> dep in   *)
(* d = 4, and the product with the two-qubit factor goes dep -> avg in     *)
(* d = 4; meas, prep and tq_cross are not read.                            *)
C13_GateTypeDimensions ==
    pc = "estimated"
    => /\ slice_fid.tag = "float"
       /\ slice_fid_by_gate_type(error_dict.d).tag = "float"
       /\ REq(slice_fid.val, slice_fid_by_gate_type(error_dict.d).val)

-----------------------------------------------------------------------------
(* The bounds bootstrap_bounds returns, against the quantiles of            *)
(* resampled_success and the mean of the per-trial fractions.              *)

\* the unweighted mean of heavy_t/shots_t over the first k trials
UnweightedMean(k) ==
    AFinite(RDiv(RSumSeq([t \in 1..k |-> R(qv_fitter.heavy[t], qv_fitter.shots[t])]),
                 R(k, 1)),
            RZero)

\* the quantiles of resampled_success at 1/2 + erf(sqrt 2)/2 and 1/2 - erf(sqrt 2)/2
Q_hi == np_quantile(run1.success, 1)

Q_lo == np_quantile(run1.success, -1)

\* c * qv_mean over the first ntrials trials, c an integer
TimesMean(c) ==
    LET mean == UnweightedMean(ntrials.n)
    IN  AFinite(RMul(R(c, 1), mean.a), RMul(R(c, 1), mean.b))

\* lower = 2*qv_mean - Q_hi, upper = 2*qv_mean - Q_lo, Q_lo <= Q_hi, lower <= upper
ReflectedQuantiles ==
    /\ AEq(run1.ret.lower_ci, ASub(TimesMean(2), Q_hi))
    /\ AEq(run1.ret.upper_ci, ASub(TimesMean(2), Q_lo))
    /\ ALe(Q_lo, Q_hi)
    /\ ALe(run1.ret.lower_ci, run1.ret.upper_ci)

IntNtrialsAtLeastOne == ntrials.tag = "int" /\ ntrials.n >= 1

(* C12 as stated: for ntrials >= 1 bootstrap_bounds returns                 *)
(* lower = 2*qv_mean - Q_hi and upper = 2*qv_mean - Q_lo, qv_mean the      *)
(* unweighted mean of heavy_t/shots_t over the first ntrials trials and    *)
(* Q_hi >= Q_lo the two quantiles of the resampled values; lower <= upper  *)
(* and lower + upper = 2*qv_mean - (Q_hi + Q_lo).                          *)
C12_SumIsTwiceMean ==
    (pc = "returned" /\ IntNtrialsAtLeastOne)
    => /\ ReflectedQuantiles
       /\ AEq(AAdd(run1.ret.lower_ci, run1.ret.upper_ci),
              ASub(TimesMean(2), AAdd(Q_hi, Q_lo)))

(* C12 amended: a call with 1 <= ntrials <= the number of trials returns,  *)
(* and whenever a call with ntrials >= 1 returns, lower = 2*qv_mean - Q_hi *)
(* and upper = 2*qv_mean - Q_lo with qv_mean and Q_hi >= Q_lo as above,    *)
(* lower <= upper and lower + upper = 4*qv_mean - (Q_hi + Q_lo).           *)
C12_SumIsFourTimesMean ==
    /\ (BoundsEnded /\ IntNtrialsAtLeastOne /\ ntrials.n <= NTrialsOf(qv_fitter))
       => pc = "returned"
    /\ (pc = "returned" /\ IntNtrialsAtLeastOne)
       => /\ ReflectedQuantiles
          /\ AEq(AAdd(run1.ret.lower_ci, run1.ret.upper_ci),
                 ASub(TimesMean(4), AAdd(Q_hi, Q_lo)))

\* returned for the trials 1/1 and 1/2 (mean of the fractions 3/4, pooled
\* ratio 2/3) with two different resampled values: lower < upper, and
\* lower + upper differs from 2*qv_mean - (Q_hi + Q_lo) by 2*qv_mean = 3/2
C12_Witness ==
    /\ pc = "returned"
    /\ qv_fitter = [heavy |-> <<1, 1>>, shots |-> <<1, 2>>]
    /\ ntrials = NtInt(2)
    /\ reps = 2
    /\ ~REq(run1.success[1], run1.success[2])
    /\ ALe(run1.ret.lower_ci, run1.ret.upper_ci)
    /\ ~ALe(run1.ret.upper_ci, run1.ret.lower_ci)
    /\ AEq(AAdd(run1.ret.lower_ci, run1.ret.upper_ci),
           ASub(AFinite(R(3, 1), RZero), AAdd(Q_hi, Q_lo)))

-----------------------------------------------------------------------------
(* passing_error_estimate (src/utils.py)                                    *)
(*                                                                         *)
(* qv_estimate holds two error levels (the keys of error_dict, in the      *)
(* order they were inserted) and, per level, the success of each trial.    *)
(* Through two points CubicSpline is the straight line through them, and   *)
(* it extrapolates outside them.  root_scalar(method='secant') runs        *)
(* scipy's secant iteration with its defaults and disp=False: it never     *)
(* raises, it returns a result holding root and converged.                 *)

\* threshold=2/3
threshold == R(2, 3)

\* x0=1e-4
secant_x0 == R(1, 10000)

\* x1=1e-3
secant_x1 == R(1, 1000)

\* the secant iteration's default tolerance on the step, 1.48e-8
secant_tol == RMul(R(148, 10000), R(1, 1000000))

\* the secant iteration's default iteration limit
secant_maxiter == 50

\* the largest m in lo..hi with b*m <= a (b*lo <= a is given)
RECURSIVE NDigit(_, _, _, _)
NDigit(a, b, lo, hi) ==
    IF lo = hi THEN lo
    ELSE LET mid == (lo + hi + 1) \div 2
         IN  IF NCmp(NTrim(NMulD(b, mid, 0)), a) <= 0 THEN NDigit(a, b, mid, hi)
             ELSE NDigit(a, b, lo, mid - 1)

\* long division of the limbs a[1..i] (most significant first) by b # 0,
\* continuing from quotient q and remainder r
RECURSIVE NDivModAt(_, _, _, _, _)
NDivModAt(a, b, i, q, r) ==
    IF i = 0 THEN [q |-> NTrim(q), r |-> r]
    ELSE LET cur == NTrim(<<a[i]>> \o r)
             m == NDigit(cur, b, 0, Base - 1)
         IN  NDivModAt(a, b, i - 1, <<m>> \o q, NSub(cur, NTrim(NMulD(b, m, 0))))

NDivMod(a, b) == NDivModAt(a, b, Len(a), <<>>, <<>>)

RECURSIVE NGcd(_, _)
NGcd(a, b) == IF b = <<>> THEN a ELSE NGcd(b, NDivMod(a, b).r)

\* the same rational in lowest terms
RNorm(x) ==
    LET g == NGcd(x.num.mag, x.den)
    IN  RMk(ZMk(x.num.neg, NDivMod(x.num.mag, g).q), NDivMod(x.den, g).q)

RAbs(x) == IF RSign(x) < 0 THEN RNeg(x) ELSE x

\* np.mean of a list of numbers
np_mean(s) == RNorm(RDiv(RSumSeq(s), R(Len(s), 1)))

\* ndata = [np.mean(qv_estimate.act_success[nqubits, e]) for e in evals]
ndata_of(succ) == [i \in 1..Len(succ) |-> np_mean(succ[i])]

SplineValue(x0, y0, slope) == [tag |-> "spline", x0 |-> x0, y0 |-> y0, slope |-> slope]

SplineRaise(exc) == [tag |-> exc, x0 |-> RZero, y0 |-> RZero, slope |-> RZero]

\* CubicSpline(x, y) for two points: ValueError unless x is strictly
\* increasing, else the line through (x[1], y[1]) and (x[2], y[2])
CubicSpline(x, y) ==
    IF ~RLt(x[1], x[2]) THEN SplineRaise("ValueError")
    ELSE SplineValue(x[1], y[1], RNorm(RDiv(RSub(y[2], y[1]), RSub(x[2], x[1]))))

\* cs(x)
cs_at(c, x) == RNorm(RAdd(c.y0, RMul(c.slope, RSub(x, c.x0))))

RootResults(root, converged) == [root |-> root, converged |-> converged]

\* the secant update from (p0, q0), (p1, q1), q0 # q1
secant_update(p0, q0, p1, q1) ==
    IF RLt(RAbs(q0), RAbs(q1))
    THEN LET r == RNorm(RDiv(q0, q1))
         IN  RNorm(RDiv(RAdd(RMul(RNeg(r), p1), p0), RSub(ROne, r)))
    ELSE LET r == RNorm(RDiv(q1, q0))
         IN  RNorm(RDiv(RAdd(RMul(RNeg(r), p0), p1), RSub(ROne, r)))

\* the secant loop from iteration itr: equal function values end it at the
\* midpoint, flagged converged (a RuntimeWarning is all that tells the
\* difference); a step within the tolerance ends it converged; the
\* iteration limit ends it with the last iterate, flagged not converged
RECURSIVE secant_loop(_, _, _, _, _, _)
secant_loop(c, p0, q0, p1, q1, itr) ==
    IF itr = secant_maxiter THEN RootResults(p1, FALSE)
    ELSE IF REq(q1, q0) THEN RootResults(RNorm(RDiv(RAdd(p1, p0), R(2, 1))), TRUE)
    ELSE LET p == secant_update(p0, q0, p1, q1)
         IN  IF RLe(RAbs(RSub(p, p1)), secant_tol) THEN RootResults(p, TRUE)
             ELSE secant_loop(c, p1, q1, p, cs_at(c, p), itr + 1)

\* root_scalar(cs, x0=x0, x1=x1, method='secant'): the start points are
\* swapped when the second has the smaller |cs|
root_scalar(c, x0, x1) ==
    LET q0 == cs_at(c, x0)
        q1 == cs_at(c, x1)
    IN  IF RLt(RAbs(q1), RAbs(q0)) THEN secant_loop(c, x1, q1, x0, q0, 0)
        ELSE secant_loop(c, x0, q0, x1, q1, 0)

\* error levels are the multiples of 1/1000 from 1/1000 to MaxLevel/1000
MaxLevel == 3

\* the success of a trial is a multiple of 1/ObsDen in [0, 1]
ObsDen == 3

EvalLevels == { R(k, 1000) : k \in 1..MaxLevel }

Observations == { R(k, ObsDen) : k \in 0..ObsDen }

\* two trials per level
TrialLists == { <<a, b>> : a \in Observations, b \in Observations }

InitThreshold ==
    /\ pc = "passing_error_estimate"
    /\ evals \in { e \in EvalLevels \X EvalLevels : e[1] # e[2] }
    /\ act_success \in [1..2 -> TrialLists]
    /\ cs = << >>
    /\ sol = << >>
    /\ pe_ret = PyNone
    /\ IdleConvert /\ IdleBounds /\ IdleBootstrap /\ IdleErrors

\* lines 220-222: evals, ndata, cs; an exception of CubicSpline propagates
CubicSplineFit ==
    /\ pc = "passing_error_estimate"
    /\ cs' = CubicSpline(evals, [i \in 1..Len(evals) |->
                                    RNorm(RSub(ndata_of(act_success)[i], threshold))])
    /\ pc' = IF cs'.tag = "spline" THEN "root_scalar" ELSE "raised"
    /\ pe_ret' = IF cs'.tag = "spline" THEN pe_ret ELSE PyRaise(cs'.tag)
    /\ UNCHANGED << evals, act_success, sol >>
    /\ UNCHANGED << convertVars, boundsVars, bootstrapVars, errorsVars >>

\* line 224: return root_scalar(cs, x0=1e-4, x1=1e-3, method='secant').root
RootScalar ==
    /\ pc = "root_scalar"
    /\ sol' = root_scalar(cs, secant_x0, secant_x1)
    /\ pe_ret' = PyFloat(sol'.root)
    /\ pc' = "returned"
    /\ UNCHANGED << evals, act_success, cs >>
    /\ UNCHANGED << convertVars, boundsVars, bootstrapVars, errorsVars >>

NextThreshold == CubicSplineFit \/ RootScalar

SpecThreshold == InitThreshold /\ [][NextThreshold]_vars

(* C11: passing_error_estimate returns a value only when the solver        *)
(* reports convergence and the value is a root of the interpolant (mean    *)
(* success minus threshold is zero there); when the secant iteration did   *)
(* not converge or the interpolant has no root, no value is returned.      *)
C11_OnlyRootsReturned ==
    pc = "returned"
    => /\ sol.converged
       /\ REq(cs_at(cs, pe_ret.val), RZero)

=============================================================================
